---------------------------- MODULE Spec2Model ----------------------------
(***************************************************************************)
(* The DigitalTwin object of src/backend/digital_twin.py: the command      *)
(* gateway (execute_command, get_command_history) and the agent table,     *)
(* driven by callers that each hold a position inside the handler they     *)
(* run.                                                                    *)
(*                                                                         *)
(* Three schedulings of the command gateway are specified:                 *)
(*   Spec      callers are preempted between any two accesses to the       *)
(*             shared fields (concurrent callers of one DigitalTwin; the   *)
(*             class takes no lock);                                       *)
(*   SpecLoad  one caller is followed step by step while further callers   *)
(*             pass the gate, block in subprocess.run and release, so      *)
(*             that the ceiling is reached;                                *)
(*   SpecLoop  a caller that has entered a handler runs it to its end      *)
(*             before any other caller moves (the coroutines of main.py    *)
(*             on one event loop: execute_command holds no await).         *)
(* The other operations have specifications of their own:                  *)
(*   SpecStatus      get_system_status on any sample of the metrics;       *)
(*   SpecAgents      create_agent, the task endpoint and the status on the *)
(*                   event loop;                                           *)
(*   SpecAgentsRace  create_agent and the task endpoint under callers      *)
(*                   preempted between any two                             *)
(*                   assignments of assign_agent_task;                     *)
(*   SpecProcesses   get_processes on any enumeration of processes;        *)
(*   SpecMetrics     get_system_metrics on any outcome of its reads;       *)
(*   SpecFair        the callers of Spec, each scheduled again and again   *)
(*                   while inside execute_command.                         *)
(*                                                                         *)
(* Abstractions: args, stdout, stderr and execution_time are passed        *)
(* through by the code and are left out of the log entry and the result;   *)
(* time is a logical clock that advances when a process ends, so the       *)
(* timestamp of a log entry is the ordinal of its completion; in the       *)
(* agent specifications it advances by whole seconds at any moment.        *)
(***************************************************************************)
EXTENDS Integers, Sequences, FiniteSets, TLC

\* ------------------------------------------------------------ constants
ALLOWED_COMMANDS ==
    {"ps", "top", "df", "free", "uptime", "netstat", "lscpu", "lsmem",
     "lsblk", "lsusb", "lspci"}

PROHIBITED_COMMANDS ==
    {"rm", "del", "format", "shutdown", "reboot", "halt", "poweroff",
     "init", "mkfs", "fdisk"}

MAX_CONCURRENT_COMMANDS == 5

COMMAND_TIMEOUT == 30

\* the literal 100 of "Keep only last 100 commands in history"
HISTORY_LIMIT == 100

\* --------------------------------------------------------------- bounds
\* callers whose every access to a shared field is a step of its own
NumCallers == 2

\* further callers, which run their gate and their release unpreempted:
\* as many as fill the ceiling on their own
MaxBackground == MAX_CONCURRENT_COMMANDS

\* execute_command calls made by the callers, after the sequential prefix
MaxCalls == 2

\* agents created
MaxAgents == 2

Callers == 1 .. NumCallers

\* the caller followed step by step while the further callers come and go
Foreground == CHOOSE t \in Callers : \A u \in Callers : t <= u

\* the inputs: an allowed name, a prohibited one, one on neither list
Commands == {"ps", "rm", "cat"}

Timeouts == {1, COMMAND_TIMEOUT}

\* how long the external process would run
Durations == {0, 2, COMMAND_TIMEOUT + 1}

ReturnCodes == {0, 1}

\* disks (mounted partitions) in a metrics sample
MaxDisks == 5

\* the mount points of the partitions, in the order psutil lists them
Mounts == <<"/", "/boot", "/home", "/var", "/data", "/srv", "/opt", "/mnt">>

\* CPU and memory percents, on both sides of the thresholds 75 and 90
Percents == {75, 76, 90, 91}

\* disk percents, on both sides of the thresholds 85 and 95
DiskPercents == {85, 86, 95, 96}

\* the limits handed to get_command_history (50 is the default)
Limits == {0, 1, 2, 50, 1000}

\* lengths of the sequential prefix of completed runs
PrefixRuns == {HISTORY_LIMIT - 1, HISTORY_LIMIT, HISTORY_LIMIT + 50}

\* seconds the wall clock advances while agents are created and assigned
MaxTicks == 2

\* the tasks passed to assign_agent_task
Tasks == {"scan", "build"}

\* an id no create_agent call hands out
UnknownAgent == "agent_none"

\* the 'task' of a request body: a task, or none given
TaskFields == Tasks \cup {""}

\* processes psutil.process_iter enumerates
MaxProcs == 3

\* info['cpu_percent'] of a process: <<>> is None, <<v>> the reading v
CpuReadings == {<<>>, <<0>>, <<5>>, <<50>>}

\* partitions psutil.disk_partitions lists
MaxPartitions == 3

\* what reading one partition gives: its usage percent, a failed read, or
\* a total of 0 (the division of line 130 raises)
PartitionReads == {<<"ok", 10>>, <<"ok", 90>>, <<"failed", 0>>, <<"empty", 0>>}

\* psutil.cpu_freq(): a frequency, None, or an exception
FreqReads == {<<"ok", 2400>>, <<"none", 0>>, <<"failed", 0>>}

\* os.getloadavg(): three averages, or an exception
LoadReads == {<<"ok", <<1, 2, 3>>>>, <<"failed", <<>>>>}

VARIABLES
    active_commands,   \* self.active_commands
    command_history,   \* self.command_history
    agents,            \* self.agents: id -> Agent
    clock,             \* logical time: runs completed so far
    pc,                \* each caller's position in the handler it runs
    op,                \* the handler the caller is in
    req,               \* the arguments of the caller's call (command, timeout)
    reg,               \* the value the caller loaded from self.active_commands
    log_entry,         \* the log_entry the caller has built
    sliced,            \* the list self.command_history[-100:] the caller built
    outcome,           \* how the caller's subprocess.run ended
    response,          \* what the caller's call returns or raises
    ran,               \* history variable: how long the call's process ran
    metrics,           \* what the caller's call sampled from the operating
                       \* system (get_system_metrics, psutil.process_iter)
    calls,             \* execute_command calls made so far
    background         \* further callers blocked in subprocess.run

vars == <<active_commands, command_history, agents, clock, pc, op, req, reg,
          log_entry, sliced, outcome, response, ran, metrics, calls, background>>

\* ------------------------------------------------------------ helpers
Max(a, b) == IF a >= b THEN a ELSE b

Min(a, b) == IF a <= b THEN a ELSE b

\* Python's s[-n:] for any integer n: -0 is 0, so s[-0:] is all of s
PyTail(s, n) ==
    LET start == IF n > 0 THEN Max(Len(s) - n, 0) ELSE Min(0 - n, Len(s))
    IN  SubSeq(s, start + 1, Len(s))

NoRequest == [command |-> "", timeout |-> 0]

NoEntry == [timestamp |-> 0, command |-> "", return_code |-> 0, success |-> FALSE]

NoResponse ==
    [status_code |-> 0, detail |-> "", command |-> "", return_code |-> 0,
     success |-> FALSE, limit |-> 0, history |-> <<>>]

\* no get_system_metrics call made
NoMetrics == [state |-> "none", cpu_percent |-> 0, memory_percent |-> 0, disk_usage |-> <<>>]

\* raise HTTPException(status_code, detail)
HTTPException(code, detail, command) ==
    [NoResponse EXCEPT !.status_code = code, !.detail = detail, !.command = command]

\* the gate with the allow-list consulted before the prohibited set
GateCheckAllowFirst(count, command, allowed, prohibited) ==
    IF count >= MAX_CONCURRENT_COMMANDS
    THEN HTTPException(429, "Too many concurrent commands", command)
    ELSE IF command \notin allowed
    THEN HTTPException(403, "is not in allowed list", command)
    ELSE IF command \in prohibited
    THEN HTTPException(403, "is prohibited", command)
    ELSE NoResponse

\* the gate without its allow-list
GateCheckNoAllowList(count, command, allowed, prohibited) ==
    IF count >= MAX_CONCURRENT_COMMANDS
    THEN HTTPException(429, "Too many concurrent commands", command)
    ELSE IF command \in prohibited
    THEN HTTPException(403, "is prohibited", command)
    ELSE NoResponse

\* the gate with the policy consulted before the ceiling
GateCheckPolicyFirst(count, command, allowed, prohibited) ==
    IF command \in prohibited
    THEN HTTPException(403, "is prohibited", command)
    ELSE IF command \notin allowed
    THEN HTTPException(403, "is not in allowed list", command)
    ELSE IF count >= MAX_CONCURRENT_COMMANDS
    THEN HTTPException(429, "Too many concurrent commands", command)
    ELSE NoResponse

\* the three checks that open execute_command, in the code's order
GateCheck(count, command, allowed, prohibited) ==
    IF count >= MAX_CONCURRENT_COMMANDS
    THEN HTTPException(429, "Too many concurrent commands", command)
    ELSE IF command \in prohibited
    THEN HTTPException(403, "is prohibited", command)
    ELSE IF command \notin allowed
    THEN HTTPException(403, "is not in allowed list", command)
    ELSE NoResponse

\* log_entry = {...}: success is return_code == 0
LogEntry(now, command, rc) ==
    [timestamp |-> now, command |-> command, return_code |-> rc, success |-> (rc = 0)]

\* the dict execute_command returns
CommandResult(command, rc) ==
    [NoResponse EXCEPT !.status_code = 200, !.command = command,
                       !.return_code = rc, !.success = (rc = 0)]

\* line 305: len(self.command_history) > 100
TooLong(h) == Len(h) > HISTORY_LIMIT

\* a slice that keeps the head of the list: self.command_history[:100]
FirstHundred(h) == SubSeq(h, 1, Min(Len(h), HISTORY_LIMIT))

\* line 306: self.command_history[-100:]
LastHundred(h) == PyTail(h, HISTORY_LIMIT)

\* lines 305-306 as one step
Truncate(h) == IF TooLong(h) THEN LastHundred(h) ELSE h

\* a run that is given COMMAND_TIMEOUT whatever timeout the caller asked for
TimedOutByDefault(duration, timeout) == duration > COMMAND_TIMEOUT

\* line 287: subprocess.run raises TimeoutExpired when the process outlasts
\* the timeout it was given
TimedOut(duration, timeout) == duration > timeout

\* an exception that leaves the handler without passing through a release
AfterRaiseNoRelease == "done"

\* an except clause that falls through to the logging of the entry
AfterRaiseLogs == "append"

\* lines 318-324: where an exception of subprocess.run leads: through the
\* except clause to the finally block
AfterRaise == "decr"

\* return self.command_history[-limit:]
get_command_history(h, limit) == PyTail(h, limit)

\* one call of execute_command("ps") run to its end with return code 0:
\* lines 291-306 on the history
OneRun(h, now) == Truncate(Append(h, LogEntry(now + 1, "ps", 0)))

\* k such calls, one after the other (split in halves, the first half
\* evaluated before the second, to keep the evaluation shallow; every call
\* is one OneRun)
RECURSIVE Runs(_, _, _)
Runs(h, now, k) ==
    IF k = 0 THEN h
    ELSE IF k = 1 THEN OneRun(h, now)
    ELSE LET half == k \div 2
             first == Runs(h, now, half)
         IN  IF Len(first) >= 0 THEN Runs(first, now + half, k - half) ELSE first

Quiescent == background = 0 /\ \A t \in Callers : pc[t] = "idle"

\* external processes running: callers inside subprocess.run
Running == background + Cardinality({t \in Callers : pc[t] = "run"})

\* ---------------------------------------------------------------- Init
\* lines 94-97, and no caller inside a handler
Init ==
    /\ active_commands = 0
    /\ command_history = <<>>
    /\ agents = <<>>
    /\ clock = 0
    /\ pc = [t \in Callers |-> "idle"]
    /\ op = [t \in Callers |-> ""]
    /\ req = [t \in Callers |-> NoRequest]
    /\ reg = [t \in Callers |-> 0]
    /\ log_entry = [t \in Callers |-> NoEntry]
    /\ sliced = [t \in Callers |-> <<>>]
    /\ outcome = [t \in Callers |-> ""]
    /\ response = [t \in Callers |-> NoResponse]
    /\ ran = [t \in Callers |-> 0]
    /\ metrics = [t \in Callers |-> NoMetrics]
    /\ calls = 0
    /\ background = 0

\* ----------------------------------------------- execute_command, by step
\* lines 263-273: the call and its gate. A rejected call raises at once.
\* a rejection raised inside the try block, so that the finally block runs
AfterRejectReleases == "decr"

\* lines 267-273: the gate raises before the try block is entered
AfterReject == "done"

ExecuteCommand(t, command, timeout) ==
    /\ pc[t] = "idle"
    /\ calls < MaxCalls
    /\ calls' = calls + 1
    /\ op' = [op EXCEPT ![t] = "execute_command"]
    /\ req' = [req EXCEPT ![t] = [command |-> command, timeout |-> timeout]]
    /\ LET r == GateCheck(active_commands, command, ALLOWED_COMMANDS, PROHIBITED_COMMANDS)
       IN  IF r = NoResponse
           THEN /\ pc' = [pc EXCEPT ![t] = "incr"]
                /\ UNCHANGED response
           ELSE /\ pc' = [pc EXCEPT ![t] = AfterReject]
                /\ response' = [response EXCEPT ![t] = r]
    /\ UNCHANGED <<active_commands, command_history, agents, clock, reg,
                   log_entry, sliced, outcome, ran, background, metrics>>

\* line 275, self.active_commands += 1: the load
IncrLoad(t) ==
    /\ pc[t] = "incr"
    /\ reg' = [reg EXCEPT ![t] = active_commands]
    /\ pc' = [pc EXCEPT ![t] = "incr_store"]
    /\ UNCHANGED <<active_commands, command_history, agents, clock, op, req,
                   log_entry, sliced, outcome, response, ran, calls,
                   background, metrics>>

\* line 275: the store
IncrStore(t) ==
    /\ pc[t] = "incr_store"
    /\ active_commands' = reg[t] + 1
    /\ reg' = [reg EXCEPT ![t] = 0]
    /\ pc' = [pc EXCEPT ![t] = "run"]
    /\ UNCHANGED <<command_history, agents, clock, op, req, log_entry, sliced,
                   outcome, response, ran, calls, background, metrics>>

\* lines 283-301: subprocess.run returns within the timeout; the log entry
\* is built from its return code
RunCompletes(t, rc, duration) ==
    /\ pc[t] = "run"
    /\ ~TimedOut(duration, req[t].timeout)
    /\ clock' = clock + 1
    /\ log_entry' = [log_entry EXCEPT ![t] = LogEntry(clock', req[t].command, rc)]
    /\ outcome' = [outcome EXCEPT ![t] = "completed"]
    /\ ran' = [ran EXCEPT ![t] = duration]
    /\ pc' = [pc EXCEPT ![t] = "append"]
    /\ UNCHANGED <<active_commands, command_history, agents, op, req, reg,
                   sliced, response, calls, background, metrics>>

\* line 318: subprocess.run raises TimeoutExpired
RunTimesOut(t, duration) ==
    /\ pc[t] = "run"
    /\ TimedOut(duration, req[t].timeout)
    /\ outcome' = [outcome EXCEPT ![t] = "timed_out"]
    /\ ran' = [ran EXCEPT ![t] = duration]
    /\ pc' = [pc EXCEPT ![t] = AfterRaise]
    /\ UNCHANGED <<active_commands, command_history, agents, clock, op, req,
                   reg, log_entry, sliced, response, calls, background,
                   metrics>>

\* line 320: subprocess.run raises any other exception (no such executable)
RunFails(t) ==
    /\ pc[t] = "run"
    /\ outcome' = [outcome EXCEPT ![t] = "failed"]
    /\ pc' = [pc EXCEPT ![t] = AfterRaise]
    /\ UNCHANGED <<active_commands, command_history, agents, clock, op, req,
                   reg, log_entry, sliced, response, ran, calls, background,
                   metrics>>

\* line 302: self.command_history.append(log_entry)
AppendLog(t) ==
    /\ pc[t] = "append"
    /\ command_history' = Append(command_history, log_entry[t])
    /\ pc' = [pc EXCEPT ![t] = "check_len"]
    /\ UNCHANGED <<active_commands, agents, clock, op, req, reg, log_entry,
                   sliced, outcome, response, ran, calls, background, metrics>>

\* line 305: if len(self.command_history) > 100
CheckLen(t) ==
    /\ pc[t] = "check_len"
    /\ pc' = [pc EXCEPT ![t] = IF TooLong(command_history) THEN "slice" ELSE "decr"]
    /\ UNCHANGED <<active_commands, command_history, agents, clock, op, req,
                   reg, log_entry, sliced, outcome, response, ran, calls,
                   background, metrics>>

\* line 306, right-hand side: self.command_history[-100:] builds a new list
SliceLoad(t) ==
    /\ pc[t] = "slice"
    /\ sliced' = [sliced EXCEPT ![t] = LastHundred(command_history)]
    /\ pc' = [pc EXCEPT ![t] = "slice_store"]
    /\ UNCHANGED <<active_commands, command_history, agents, clock, op, req,
                   reg, log_entry, outcome, response, ran, calls, background,
                   metrics>>

\* line 306, the assignment: self.command_history = <the new list>
SliceStore(t) ==
    /\ pc[t] = "slice_store"
    /\ command_history' = sliced[t]
    /\ sliced' = [sliced EXCEPT ![t] = <<>>]
    /\ pc' = [pc EXCEPT ![t] = "decr"]
    /\ UNCHANGED <<active_commands, agents, clock, op, req, reg, log_entry,
                   outcome, response, ran, calls, background, metrics>>

\* lines 323-324, finally: self.active_commands -= 1: the load
DecrLoad(t) ==
    /\ pc[t] = "decr"
    /\ reg' = [reg EXCEPT ![t] = active_commands]
    /\ pc' = [pc EXCEPT ![t] = "decr_store"]
    /\ UNCHANGED <<active_commands, command_history, agents, clock, op, req,
                   log_entry, sliced, outcome, response, ran, calls,
                   background, metrics>>

\* a run checked for its return code (check=True): a non-zero return code
\* raises and ends in the generic handler
OutcomeChecked(how, command, rc) ==
    IF how = "completed" /\ rc = 0 THEN CommandResult(command, rc)
    ELSE IF how = "timed_out" THEN HTTPException(408, "timed out", command)
    ELSE HTTPException(500, "Failed to execute command", command)

\* lines 308-322: what the call returns or raises, by how the run ended
Outcome(how, command, rc) ==
    IF how = "completed" THEN CommandResult(command, rc)
    ELSE IF how = "timed_out" THEN HTTPException(408, "timed out", command)
    ELSE HTTPException(500, "Failed to execute command", command)

\* line 324: the store; the call then returns or raises
DecrStore(t) ==
    /\ pc[t] = "decr_store"
    /\ active_commands' = reg[t] - 1
    /\ response' = [response EXCEPT ![t] =
                       Outcome(outcome[t], req[t].command, log_entry[t].return_code)]
    /\ reg' = [reg EXCEPT ![t] = 0]
    /\ log_entry' = [log_entry EXCEPT ![t] = NoEntry]
    /\ pc' = [pc EXCEPT ![t] = "done"]
    /\ UNCHANGED <<command_history, agents, clock, op, req, sliced, outcome,
                   ran, calls, background, metrics>>

\* the caller has its answer and leaves the handler
Return(t) ==
    /\ pc[t] = "done"
    /\ pc' = [pc EXCEPT ![t] = "idle"]
    /\ op' = [op EXCEPT ![t] = ""]
    /\ req' = [req EXCEPT ![t] = NoRequest]
    /\ outcome' = [outcome EXCEPT ![t] = ""]
    /\ response' = [response EXCEPT ![t] = NoResponse]
    /\ ran' = [ran EXCEPT ![t] = 0]
    /\ metrics' = [metrics EXCEPT ![t] = NoMetrics]
    /\ UNCHANGED <<active_commands, command_history, agents, clock, reg,
                   log_entry, sliced, calls, background>>

\* ------------------------------------------------- the other operations
\* lines 444-446 (main.py 331-334): a synchronous read of the history
GetCommandHistory(t, limit) ==
    /\ pc[t] = "idle"
    /\ pc' = [pc EXCEPT ![t] = "done"]
    /\ op' = [op EXCEPT ![t] = "get_command_history"]
    /\ response' = [response EXCEPT ![t] =
                       [NoResponse EXCEPT !.status_code = 200, !.limit = limit,
                            !.history = get_command_history(command_history, limit)]]
    /\ UNCHANGED <<active_commands, command_history, agents, clock, req, reg,
                   log_entry, sliced, outcome, ran, calls, background,
                   metrics>>

\* an id made of the creation time alone
AgentIdByTime(n, now) == "agent_" \o ToString(now)

\* line 394: f"agent_{len(self.agents)}_{int(time.time())}"
AgentId(n, now) == "agent_" \o ToString(n) \o "_" \o ToString(now)

\* an agent that starts out idle instead of active
NewAgentIdle(id, name, agent_type, capabilities, now) ==
    [id |-> id, name |-> name, type |-> agent_type, status |-> "idle",
     created_at |-> now, last_active |-> now, current_task |-> "None",
     resource_usage |-> [cpu |-> 0, memory |-> 0], capabilities |-> capabilities]

\* lines 396-406: the Agent that create_agent builds, stores and returns
NewAgent(id, name, agent_type, capabilities, now) ==
    [id |-> id, name |-> name, type |-> agent_type, status |-> "active",
     created_at |-> now, last_active |-> now, current_task |-> "None",
     resource_usage |-> [cpu |-> 0, memory |-> 0], capabilities |-> capabilities]

CreateAgent(t, name, agent_type, capabilities) ==
    /\ pc[t] = "idle"
    /\ Cardinality(DOMAIN agents) < MaxAgents
    /\ LET id == AgentId(Cardinality(DOMAIN agents), clock)
       IN  agents' = [a \in DOMAIN agents \cup {id} |->
                        IF a = id THEN NewAgent(id, name, agent_type, capabilities, clock)
                        ELSE agents[a]]
    /\ UNCHANGED <<active_commands, command_history, clock, pc, op, req, reg,
                   log_entry, sliced, outcome, response, ran, calls,
                   background, metrics>>

\* lines 421-442: assign_agent_task. The three assignments of lines 428-430
\* are three steps; the returned record is built after the last of them.
\* Its 'parameters' field is the argument passed through and is left out.

\* a lookup that takes every id for a known one
AgentAssumedKnown(table, agent_id) == TRUE

\* lines 423-424: self.agents.get(agent_id) and "if not agent"
AgentKnown(table, agent_id) == agent_id \in DOMAIN table

AgentNotFound(agent_id) == HTTPException(404, "Agent not found", agent_id)

AssignAgentTask(t, agent_id, task) ==
    /\ pc[t] = "idle"
    /\ op' = [op EXCEPT ![t] = "assign_agent_task"]
    /\ req' = [req EXCEPT ![t] = [agent_id |-> agent_id, task |-> task]]
    /\ IF AgentKnown(agents, agent_id)
       THEN /\ pc' = [pc EXCEPT ![t] = "set_task"]
            /\ UNCHANGED response
       ELSE /\ pc' = [pc EXCEPT ![t] = "done"]
            /\ response' = [response EXCEPT ![t] = AgentNotFound(agent_id)]
    /\ UNCHANGED <<active_commands, command_history, agents, clock, reg,
                   log_entry, sliced, outcome, ran, metrics, calls,
                   background>>

\* an endpoint that passes on whatever task it is given
TaskNeverMissing(task) == FALSE

\* main.py line 369: if not task
TaskMissing(task) == task = ""

\* main.py lines 363-373: the task endpoint, which answers 400 without
\* calling assign_agent_task when the request names no task
PostAgentTask(t, agent_id, task) ==
    IF TaskMissing(task)
    THEN /\ pc[t] = "idle"
         /\ pc' = [pc EXCEPT ![t] = "done"]
         /\ op' = [op EXCEPT ![t] = "post_agent_task"]
         /\ req' = [req EXCEPT ![t] = [agent_id |-> agent_id, task |-> task]]
         /\ response' = [response EXCEPT ![t] =
                            HTTPException(400, "Task is required", agent_id)]
         /\ UNCHANGED <<active_commands, command_history, agents, clock, reg,
                        log_entry, sliced, outcome, ran, metrics, calls,
                        background>>
    ELSE AssignAgentTask(t, agent_id, task)

\* line 428: agent.current_task = task
SetCurrentTask(t) ==
    /\ pc[t] = "set_task"
    /\ agents' = [agents EXCEPT ![req[t].agent_id].current_task = req[t].task]
    /\ pc' = [pc EXCEPT ![t] = "set_active"]
    /\ UNCHANGED <<active_commands, command_history, clock, op, req, reg,
                   log_entry, sliced, outcome, response, ran, metrics, calls,
                   background>>

\* an assignment that stamps every agent of the table
StampAll(t) ==
    /\ pc[t] = "set_active"
    /\ agents' = [a \in DOMAIN agents |-> [agents[a] EXCEPT !.last_active = clock]]
    /\ pc' = [pc EXCEPT ![t] = "set_status"]
    /\ UNCHANGED <<active_commands, command_history, clock, op, req, reg,
                   log_entry, sliced, outcome, response, ran, metrics, calls,
                   background>>

\* line 429: agent.last_active = datetime.now()
SetLastActive(t) ==
    /\ pc[t] = "set_active"
    /\ agents' = [agents EXCEPT ![req[t].agent_id].last_active = clock]
    /\ pc' = [pc EXCEPT ![t] = "set_status"]
    /\ UNCHANGED <<active_commands, command_history, clock, op, req, reg,
                   log_entry, sliced, outcome, response, ran, metrics, calls,
                   background>>

\* lines 430-442: agent.status = "busy", then the record is returned
SetStatus(t) ==
    /\ pc[t] = "set_status"
    /\ agents' = [agents EXCEPT ![req[t].agent_id].status = "busy"]
    /\ response' = [response EXCEPT ![t] =
                       [agent_id |-> req[t].agent_id, task |-> req[t].task,
                        status |-> "assigned", assigned_at |-> clock]]
    /\ pc' = [pc EXCEPT ![t] = "done"]
    /\ UNCHANGED <<active_commands, command_history, clock, op, req, reg,
                   log_entry, sliced, outcome, ran, metrics, calls,
                   background>>

\* a second of wall-clock time passes (time.time(), datetime.now())
Tick ==
    /\ clock < MaxTicks
    /\ clock' = clock + 1
    /\ UNCHANGED <<active_commands, command_history, agents, pc, op, req,
                   reg, log_entry, sliced, outcome, response, ran, metrics,
                   calls, background>>

\* k calls of execute_command("ps") made one after the other before any
\* other call, each run to its end with return code 0
SequentialRuns(k) ==
    /\ Quiescent
    /\ calls = 0 /\ clock = 0
    /\ active_commands = 0
    /\ command_history' = Runs(command_history, clock, k)
    /\ clock' = clock + k
    /\ UNCHANGED <<active_commands, agents, pc, op, req, reg, log_entry,
                   sliced, outcome, response, ran, calls, background, metrics>>

\* a further caller passes the gate with an allowed command, increments
\* (lines 265-275) and blocks in subprocess.run, unpreempted
BackgroundEnters ==
    /\ background < MaxBackground
    /\ GateCheck(active_commands, "ps", ALLOWED_COMMANDS, PROHIBITED_COMMANDS) = NoResponse
    /\ active_commands' = active_commands + 1
    /\ background' = background + 1
    /\ UNCHANGED <<command_history, agents, clock, pc, op, req, reg,
                   log_entry, sliced, outcome, response, ran, calls, metrics>>

\* its process times out and it releases (lines 318-324), unpreempted
BackgroundTimesOut ==
    /\ background > 0
    /\ active_commands' = active_commands - 1
    /\ background' = background - 1
    /\ UNCHANGED <<command_history, agents, clock, pc, op, req, reg,
                   log_entry, sliced, outcome, response, ran, calls, metrics>>

\* ------------------------------------------------------ get_system_status
\* one entry of the warnings list: its text and the mount or fault it names
Warning(text, about) == [text |-> text, about |-> about]

\* a CPU check whose upper threshold includes 90
CpuCheckInclusive(cpu_percent) ==
    IF cpu_percent >= 90
    THEN [penalty |-> 20, warnings |-> <<Warning("High CPU usage", "")>>]
    ELSE IF cpu_percent > 75
    THEN [penalty |-> 10, warnings |-> <<Warning("Elevated CPU usage", "")>>]
    ELSE [penalty |-> 0, warnings |-> <<>>]

\* lines 335-341: the CPU check
CpuCheck(cpu_percent) ==
    IF cpu_percent > 90
    THEN [penalty |-> 20, warnings |-> <<Warning("High CPU usage", "")>>]
    ELSE IF cpu_percent > 75
    THEN [penalty |-> 10, warnings |-> <<Warning("Elevated CPU usage", "")>>]
    ELSE [penalty |-> 0, warnings |-> <<>>]

\* lines 343-349: the memory check
MemoryCheck(memory_percent) ==
    IF memory_percent > 90
    THEN [penalty |-> 20, warnings |-> <<Warning("High memory usage", "")>>]
    ELSE IF memory_percent > 75
    THEN [penalty |-> 10, warnings |-> <<Warning("Elevated memory usage", "")>>]
    ELSE [penalty |-> 0, warnings |-> <<>>]

\* lines 353-358: the check of one disk
DiskCheck(usage) ==
    IF usage.percent > 95
    THEN [penalty |-> 15, warnings |-> <<Warning("Disk nearly full", usage.mount)>>]
    ELSE IF usage.percent > 85
    THEN [penalty |-> 5, warnings |-> <<Warning("Disk low on space", usage.mount)>>]
    ELSE [penalty |-> 0, warnings |-> <<>>]

\* lines 352-358: the loop over metrics.disk_usage.items(), in dict order
RECURSIVE DiskChecks(_)
DiskChecks(disk_usage) ==
    IF disk_usage = <<>> THEN [penalty |-> 0, warnings |-> <<>>]
    ELSE LET first == DiskCheck(Head(disk_usage))
             rest == DiskChecks(Tail(disk_usage))
         IN  [penalty |-> first.penalty + rest.penalty,
              warnings |-> first.warnings \o rest.warnings]

\* status tiers whose thresholds exclude 90 and 70
StatusTierStrict(health_score) ==
    IF health_score > 90 THEN "healthy"
    ELSE IF health_score > 70 THEN "warning"
    ELSE "critical"

\* lines 361-366: the status, from the score as the checks left it
StatusTier(health_score) ==
    IF health_score >= 90 THEN "healthy"
    ELSE IF health_score >= 70 THEN "warning"
    ELSE "critical"

\* a score reported as the checks left it
ReportedScoreRaw(health_score) == health_score

\* line 370: max(0, health_score)
ReportedScore(health_score) == Max(0, health_score)

\* line 375: max of the disk percents, 0 without disks
RECURSIVE DiskUsageMax(_)
DiskUsageMax(disk_usage) ==
    IF disk_usage = <<>> THEN 0
    ELSE Max(Head(disk_usage).percent, DiskUsageMax(Tail(disk_usage)))

\* lines 331-381: the report built from a metrics sample
HealthReport(m, active_agents) ==
    LET cpu == CpuCheck(m.cpu_percent)
        memory == MemoryCheck(m.memory_percent)
        disks == DiskChecks(m.disk_usage)
        health_score == 100 - cpu.penalty - memory.penalty - disks.penalty
    IN  [status |-> StatusTier(health_score),
         health_score |-> ReportedScore(health_score),
         warnings |-> cpu.warnings \o memory.warnings \o disks.warnings,
         metrics_summary |->
             [cpu_percent |-> m.cpu_percent,
              memory_percent |-> m.memory_percent,
              disk_usage_max |-> DiskUsageMax(m.disk_usage)],
         active_agents |-> active_agents]

\* a fault that leaves get_system_status as HTTP 500
ErrorRaised(detail) == HTTPException(500, detail, "")

\* lines 383-390: the report of the except clause
ErrorReport(detail) ==
    [status |-> "error", health_score |-> 0,
     warnings |-> <<Warning("System monitoring error", detail)>>]

\* lines 166-168: what get_system_metrics raises when sampling fails
SamplingFailure == "Failed to get system metrics"

\* any other exception raised inside the try block of get_system_status
EvaluationFailure == "evaluation failed"

\* lines 326-390: get_system_status on what get_system_metrics gave
get_system_status(m, active_agents) ==
    IF m.state = "ok" THEN HealthReport(m, active_agents)
    ELSE IF m.state = "failed" THEN ErrorReport(SamplingFailure)
    ELSE ErrorReport(EvaluationFailure)

\* a SystemMetrics sample: the fields get_system_status reads
Sample(cpu_percent, memory_percent, percents) ==
    [state |-> "ok", cpu_percent |-> cpu_percent, memory_percent |-> memory_percent,
     disk_usage |-> [i \in DOMAIN percents |->
                        [mount |-> Mounts[i], percent |-> percents[i]]]]

\* the samples tried: every combination of the percents, for up to MaxDisks
\* disks; a failed sampling; a sample whose evaluation raises
Samples ==
    {Sample(c, m, d) : c \in Percents, m \in Percents,
                       d \in UNION {[1 .. n -> DiskPercents] : n \in 0 .. MaxDisks}}
    \cup {[NoMetrics EXCEPT !.state = "failed"], [NoMetrics EXCEPT !.state = "faulted"]}

\* a count of the agents whose status is "active" only
AgentsNotBusy(table) ==
    Cardinality({a \in DOMAIN table : table[a].status = "active"})

\* line 379: len(self.agents)
ActiveAgents(table) == Cardinality(DOMAIN table)

\* the samples tried while agents are created and assigned: one with
\* three penalties and a failed sampling
StatusSamples ==
    {Sample(76, 91, <<86>>), [NoMetrics EXCEPT !.state = "failed"]}

\* main.py 298-301: the status endpoint; the handler holds no await that
\* suspends, so it is one step
GetSystemStatus(t, sample) ==
    /\ pc[t] = "idle"
    /\ pc' = [pc EXCEPT ![t] = "done"]
    /\ op' = [op EXCEPT ![t] = "get_system_status"]
    /\ metrics' = [metrics EXCEPT ![t] = sample]
    /\ response' = [response EXCEPT ![t] =
                       get_system_status(sample, ActiveAgents(agents))]
    /\ UNCHANGED <<active_commands, command_history, agents, clock, req, reg,
                   log_entry, sliced, outcome, ran, calls, background>>

\* ----------------------------------------------------- get_system_metrics
\* lines 99-168. The reads of the operating system are the input: the
\* frequency, the partitions and the load average are read under a try of
\* their own, every other read (cpu_percent, memory, swap, network, boot
\* time) raises into the outer except. Of the snapshot the fields
\* cpu_freq, disk_usage and load_avg are modelled; None is <<>>.
Reads(freq, partitions, load, rest) ==
    [state |-> "reads", freq |-> freq, partitions |-> partitions,
     load |-> load, rest |-> rest]

\* lines 105-115: cpu_freq stays None unless the read gives a frequency
CpuFreq(freq) == IF freq[1] = "ok" THEN <<[current |-> freq[2]]>> ELSE <<>>

\* lines 122-133: the partitions whose usage was read, in order
RECURSIVE DiskUsage(_, _)
DiskUsage(partitions, i) ==
    IF i > Len(partitions) THEN <<>>
    ELSE IF partitions[i][1] = "ok"
         THEN <<[mount |-> Mounts[i], percent |-> partitions[i][2]]>>
                  \o DiskUsage(partitions, i + 1)
         ELSE DiskUsage(partitions, i + 1)

\* a load average taken as read, whatever the read did
LoadAvgAsRead(load) == load[2]

\* lines 142-146: load_avg, [0.0, 0.0, 0.0] when the read raises
LoadAvg(load) == IF load[1] = "ok" THEN load[2] ELSE <<0, 0, 0>>

get_system_metrics(reads) ==
    IF reads.rest = "failed"
    THEN HTTPException(500, SamplingFailure, "")
    ELSE [cpu_freq |-> CpuFreq(reads.freq),
          disk_usage |-> DiskUsage(reads.partitions, 1),
          load_avg |-> LoadAvg(reads.load)]

GetSystemMetrics(t, reads) ==
    /\ pc[t] = "idle"
    /\ pc' = [pc EXCEPT ![t] = "done"]
    /\ op' = [op EXCEPT ![t] = "get_system_metrics"]
    /\ metrics' = [metrics EXCEPT ![t] = reads]
    /\ response' = [response EXCEPT ![t] = get_system_metrics(reads)]
    /\ UNCHANGED <<active_commands, command_history, agents, clock, req, reg,
                   log_entry, sliced, outcome, ran, calls, background>>

\* --------------------------------------------------------- get_processes
\* lines 170-197. A process of the enumeration either gives its info, or
\* raises NoSuchProcess ("vanished") or AccessDenied ("denied") while its
\* entry is built, or raises something else ("faulted"). Of the ProcessInfo
\* fields only pid and cpu_percent are modelled; a process is the pair of
\* what happens to it and its cpu_percent reading, its pid is its position.
ProcessTables ==
    UNION {[1 .. n -> {"ok", "vanished", "denied", "faulted"} \X CpuReadings] :
               n \in 0 .. MaxProcs}

\* line 180: info['cpu_percent'] or 0.0
OrZero(reading) == IF reading = <<>> \/ reading[1] = 0 THEN 0 ELSE reading[1]

ProcessInfo(pid, reading) == [pid |-> pid, cpu_percent |-> OrZero(reading)]

\* lines 173-189: the entries built, in enumeration order
RECURSIVE Collect(_, _)
Collect(procs, i) ==
    IF i > Len(procs) THEN <<>>
    ELSE IF procs[i][1] = "ok"
         THEN <<ProcessInfo(i, procs[i][2])>> \o Collect(procs, i + 1)
         ELSE Collect(procs, i + 1)

\* an ascending order
OutranksAscending(a, b) == a.cpu_percent < b.cpu_percent

\* line 192: key=lambda x: x.cpu_percent, reverse=True
Outranks(a, b) == a.cpu_percent > b.cpu_percent

\* list.sort is stable: x goes behind every entry it does not outrank
RECURSIVE Insert(_, _)
Insert(sorted, x) ==
    IF sorted = <<>> THEN <<x>>
    ELSE IF Outranks(x, Head(sorted)) THEN <<x>> \o sorted
         ELSE <<Head(sorted)>> \o Insert(Tail(sorted), x)

RECURSIVE Sort(_)
Sort(s) == IF s = <<>> THEN <<>> ELSE Insert(Sort(SubSeq(s, 1, Len(s) - 1)), s[Len(s)])

\* line 193: processes[:limit], for limit >= 0
PyHead(s, limit) == SubSeq(s, 1, Min(limit, Len(s)))

ProcessesFailure == "Failed to get processes"

get_processes(procs, limit) ==
    IF \E i \in DOMAIN procs : procs[i][1] = "faulted"
    THEN HTTPException(500, ProcessesFailure, "")
    ELSE [processes |-> PyHead(Sort(Collect(procs, 1)), limit)]

GetProcesses(t, procs, limit) ==
    /\ pc[t] = "idle"
    /\ pc' = [pc EXCEPT ![t] = "done"]
    /\ op' = [op EXCEPT ![t] = "get_processes"]
    /\ req' = [req EXCEPT ![t] = [limit |-> limit]]
    /\ metrics' = [metrics EXCEPT ![t] = [state |-> "ok", processes |-> procs]]
    /\ response' = [response EXCEPT ![t] = get_processes(procs, limit)]
    /\ UNCHANGED <<active_commands, command_history, agents, clock, reg,
                   log_entry, sliced, outcome, ran, calls, background>>

\* ------------------------------------------------------- specifications
\* the steps of execute_command, for calls with the given timeouts and
\* processes with the given return codes
CommandStep(t, timeouts, codes) ==
    \/ \E c \in Commands, to \in timeouts : ExecuteCommand(t, c, to)
    \/ IncrLoad(t)
    \/ IncrStore(t)
    \/ \E rc \in codes, d \in Durations : RunCompletes(t, rc, d)
    \/ \E d \in Durations : RunTimesOut(t, d)
    \/ RunFails(t)
    \/ AppendLog(t)
    \/ CheckLen(t)
    \/ SliceLoad(t)
    \/ SliceStore(t)
    \/ DecrLoad(t)
    \/ DecrStore(t)
    \/ Return(t)

\* concurrent callers of execute_command, preempted between any two steps
Next ==
    \/ \E t \in Callers : CommandStep(t, Timeouts, ReturnCodes)
    \/ \E t \in Callers : CreateAgent(t, "bot", "worker", <<"x">>)
    \/ SequentialRuns(HISTORY_LIMIT)

Spec == Init /\ [][Next]_vars

\* callers that move whatever the others are doing
Preempting(t) == TRUE

\* no other preemptible caller is inside a handler
Alone(t) == \A u \in Callers \ {t} : pc[u] = "idle"

\* one preemptible caller at a time, among further callers that pass the
\* gate and block in subprocess.run while it moves
NextLoad ==
    \/ CommandStep(Foreground, {COMMAND_TIMEOUT}, {0})
    \/ CreateAgent(Foreground, "bot", "worker", <<"x">>)
    \/ SequentialRuns(HISTORY_LIMIT)
    \/ BackgroundEnters
    \/ BackgroundTimesOut

SpecLoad == Init /\ [][NextLoad]_vars

\* one event loop (main.py): a handler runs to its end before any other
\* caller moves, since no handler modelled here awaits anything unfinished
LoopStep(t) ==
    \/ \E c \in Commands, to \in Timeouts : Alone(t) /\ ExecuteCommand(t, c, to)
    \/ Alone(t) /\ IncrLoad(t)
    \/ Alone(t) /\ IncrStore(t)
    \/ \E rc \in ReturnCodes, d \in Durations : Alone(t) /\ RunCompletes(t, rc, d)
    \/ \E d \in Durations : Alone(t) /\ RunTimesOut(t, d)
    \/ Alone(t) /\ RunFails(t)
    \/ Alone(t) /\ AppendLog(t)
    \/ Alone(t) /\ CheckLen(t)
    \/ Alone(t) /\ SliceLoad(t)
    \/ Alone(t) /\ SliceStore(t)
    \/ Alone(t) /\ DecrLoad(t)
    \/ Alone(t) /\ DecrStore(t)
    \/ Alone(t) /\ Return(t)
    \/ \E l \in Limits : Alone(t) /\ GetCommandHistory(t, l)
    \/ Alone(t) /\ CreateAgent(t, "bot", "worker", <<"x">>)

NextLoop ==
    \/ \E t \in Callers : LoopStep(t)
    \/ \E k \in PrefixRuns : SequentialRuns(k)

SpecLoop == Init /\ [][NextLoop]_vars

\* the status endpoint alone: one caller at a time asks for the status of
\* a system in any of the sampled conditions, while agents are created
NextStatus ==
    \/ \E t \in Callers :
           Quiescent /\ \E sample \in Samples : GetSystemStatus(t, sample)
    \/ \E t \in Callers : Alone(t) /\ Return(t)
    \/ \E t \in Callers : Alone(t) /\ CreateAgent(t, "bot", "worker", <<"x">>)

SpecStatus == Init /\ [][NextStatus]_vars

\* the agent table on the event loop of main.py: create_agent and
\* assign_agent_task hold no await, so a call runs to its end before any
\* other caller moves; the wall clock advances at any moment, and the
\* status is asked for in between
AgentLoopStep(t) ==
    \/ Alone(t) /\ \E agent_id \in DOMAIN agents \cup {UnknownAgent},
                       task \in TaskFields :
                       PostAgentTask(t, agent_id, task)
    \/ Alone(t) /\ SetCurrentTask(t)
    \/ Alone(t) /\ SetLastActive(t)
    \/ Alone(t) /\ SetStatus(t)
    \/ Alone(t) /\ Return(t)
    \/ Alone(t) /\ CreateAgent(t, "bot", "worker", <<"x">>)
    \/ Alone(t) /\ \E sample \in StatusSamples : GetSystemStatus(t, sample)

NextAgents ==
    \/ \E t \in Callers : AgentLoopStep(t)
    \/ Tick

SpecAgents == Init /\ [][NextAgents]_vars

\* the agent table under callers that are preempted between any two
\* assignments of assign_agent_task (no lock is taken on an agent)
AgentStep(t) ==
    \/ \E agent_id \in DOMAIN agents \cup {UnknownAgent}, task \in TaskFields :
           PostAgentTask(t, agent_id, task)
    \/ SetCurrentTask(t)
    \/ SetLastActive(t)
    \/ SetStatus(t)
    \/ Return(t)
    \/ CreateAgent(t, "bot", "worker", <<"x">>)

NextAgentsRace ==
    \/ \E t \in Callers : AgentStep(t)
    \/ Tick

SpecAgentsRace == Init /\ [][NextAgentsRace]_vars

\* get_processes called on whatever the enumeration gives
NextProcesses ==
    \/ \E t \in Callers :
           Quiescent /\ \E procs \in ProcessTables, limit \in Limits :
                            GetProcesses(t, procs, limit)
    \/ \E t \in Callers : Alone(t) /\ Return(t)

SpecProcesses == Init /\ [][NextProcesses]_vars

\* get_system_metrics called on whatever the reads give
NextMetrics ==
    \/ \E t \in Callers :
           Quiescent /\ \E freq \in FreqReads, load \in LoadReads,
                           rest \in {"ok", "failed"},
                           partitions \in UNION {[1 .. n -> PartitionReads] :
                                                     n \in 0 .. MaxPartitions} :
                            GetSystemMetrics(t, Reads(freq, partitions, load, rest))
    \/ \E t \in Callers : Alone(t) /\ Return(t)

SpecMetrics == Init /\ [][NextMetrics]_vars

\* the steps that carry a call from the gate to its answer
CallProgress(t) ==
    \/ IncrLoad(t)
    \/ IncrStore(t)
    \/ \E rc \in ReturnCodes, d \in Durations : RunCompletes(t, rc, d)
    \/ \E d \in Durations : RunTimesOut(t, d)
    \/ RunFails(t)
    \/ AppendLog(t)
    \/ CheckLen(t)
    \/ SliceLoad(t)
    \/ SliceStore(t)
    \/ DecrLoad(t)
    \/ DecrStore(t)

NextFair ==
    \/ \E t \in Callers : CommandStep(t, Timeouts, ReturnCodes)
    \/ SequentialRuns(HISTORY_LIMIT)

\* concurrent callers that keep being scheduled: a caller inside
\* execute_command takes its next step, and subprocess.run(timeout=...) ends
\* by the process ending, by TimeoutExpired or by another exception. Nothing
\* obliges a caller to make a new call or to pick up its answer.
SpecFair ==
    Init /\ [][NextFair]_vars /\ \A t \in Callers : WF_vars(CallProgress(t))

\* ------------------------------------------------------------ properties
\* the step in which caller t calls execute_command and meets its gate
GateStep(t) == pc[t] = "idle" /\ op'[t] = "execute_command"

\* caller t has its answer from execute_command
Answered(t) == pc[t] = "done" /\ op[t] = "execute_command"

CommandProhibited(command) == HTTPException(403, "is prohibited", command)

CommandNotAllowed(command) == HTTPException(403, "is not in allowed list", command)

TooManyConcurrentCommands(command) ==
    HTTPException(429, "Too many concurrent commands", command)

\* every history entry names an allowed command that is not prohibited
HistoryWithinPolicy ==
    \A i \in DOMAIN command_history :
        command_history[i].command \in ALLOWED_COMMANDS \ PROHIBITED_COMMANDS

C2_AlwaysCommandProhibited ==
    \A t \in Callers :
        Answered(t) /\ req[t].command \in PROHIBITED_COMMANDS
            => response[t] = CommandProhibited(req[t].command)

\* C2, amended: a prohibited command is never executed and never logged; its
\* call fails at the gate without touching counter or history, with
\* CommandProhibited when active_commands is below the ceiling (also were
\* the name in the allowed set as well) and with TooManyConcurrentCommands
\* when active_commands is at or above the ceiling.
C2_ProhibitedRejected ==
    /\ [](\A i \in DOMAIN command_history :
              command_history[i].command \notin PROHIBITED_COMMANDS)
    /\ [][\A t \in Callers :
            GateStep(t) /\ req'[t].command \in PROHIBITED_COMMANDS =>
                LET c == req'[t].command
                    r == IF active_commands < MAX_CONCURRENT_COMMANDS
                         THEN CommandProhibited(c)
                         ELSE TooManyConcurrentCommands(c)
                IN  /\ pc'[t] = "done"
                    /\ response'[t] = r
                    /\ GateCheck(active_commands, c, ALLOWED_COMMANDS \cup {c},
                                 PROHIBITED_COMMANDS) = r
                    /\ UNCHANGED <<active_commands, command_history>>]_vars

\* a prohibited command was refused as prohibited while others were running
C2_Witness ==
    \E t \in Callers :
        /\ Answered(t)
        /\ req[t].command \in PROHIBITED_COMMANDS
        /\ response[t] = CommandProhibited(req[t].command)
        /\ active_commands > 0

\* C3, as stated: a command outside the allowed set fails with
\* CommandNotAllowed, and every history entry names an allowed command that
\* is not prohibited.
C3_AlwaysCommandNotAllowed ==
    /\ \A t \in Callers :
           Answered(t) /\ req[t].command \notin ALLOWED_COMMANDS
               => response[t] = CommandNotAllowed(req[t].command)
    /\ HistoryWithinPolicy

\* C3, amended: a command outside the allowed set is never run; its call
\* fails at the gate with TooManyConcurrentCommands when active_commands is
\* at or above the ceiling, else with CommandProhibited when the name is
\* prohibited, else with CommandNotAllowed; and every history entry names an
\* allowed command that is not prohibited.
C3_NotAllowedRejected ==
    /\ []HistoryWithinPolicy
    /\ [][\A t \in Callers :
            GateStep(t) /\ req'[t].command \notin ALLOWED_COMMANDS =>
                LET c == req'[t].command
                IN  /\ pc'[t] = "done"
                    /\ response'[t] =
                           IF active_commands >= MAX_CONCURRENT_COMMANDS
                           THEN TooManyConcurrentCommands(c)
                           ELSE IF c \in PROHIBITED_COMMANDS
                           THEN CommandProhibited(c)
                           ELSE CommandNotAllowed(c)
                    /\ UNCHANGED <<active_commands, command_history>>]_vars

\* a command on neither list was refused as not allowed, after a run that
\* was logged
C3_Witness ==
    \E t \in Callers :
        /\ Answered(t)
        /\ req[t].command \notin ALLOWED_COMMANDS \cup PROHIBITED_COMMANDS
        /\ response[t] = CommandNotAllowed(req[t].command)
        /\ command_history # <<>>

C7_CeilingFirst ==
    [][\A t \in Callers :
          GateStep(t) /\ active_commands >= MAX_CONCURRENT_COMMANDS =>
              /\ pc'[t] = "done"
              /\ response'[t] = TooManyConcurrentCommands(req'[t].command)
              /\ UNCHANGED <<active_commands, command_history, agents>>]_vars

\* at the ceiling a prohibited command was refused for the ceiling, with a
\* history and an agent table that are not empty
C7_Witness ==
    \E t \in Callers :
        /\ Answered(t)
        /\ req[t].command \in PROHIBITED_COMMANDS
        /\ response[t] = TooManyConcurrentCommands(req[t].command)
        /\ active_commands >= MAX_CONCURRENT_COMMANDS
        /\ command_history # <<>>
        /\ DOMAIN agents # {}

\* caller t has been counted and has not yet released
Counted(t) ==
    pc[t] \in {"run", "append", "check_len", "slice", "slice_store", "decr",
               "decr_store"}

\* no caller is inside a handler
BetweenOperations == \A t \in Callers : pc[t] \in {"idle", "done"}

\* C4: on one event loop active_commands is 0 whenever a call starts, is 1
\* while the call that passed the gate is counted, and is 0 again, its value
\* before the call, once that call has returned or raised, whichever way
\* its run ended.
C4_CounterRestored ==
    /\ BetweenOperations => active_commands = 0
    /\ \A t \in Callers :
           /\ pc[t] \in {"incr", "incr_store"} => active_commands = 0
           /\ Counted(t) => active_commands = 1
           /\ Answered(t) /\ outcome[t] \in {"completed", "timed_out", "failed"}
                  => active_commands = 0

\* a call whose run failed unexpectedly has raised, after an earlier run
C4_Witness ==
    \E t \in Callers :
        /\ Answered(t)
        /\ outcome[t] = "failed"
        /\ response[t].status_code = 500
        /\ active_commands = 0
        /\ clock > 0

\* C5: on one event loop, a call whose process ran longer than the call's
\* timeout raises CommandTimedOut (408), and active_commands is then back
\* at 0, its value before the call.
C5_TimeoutReleases ==
    \A t \in Callers :
        Answered(t) /\ ran[t] > req[t].timeout =>
            /\ response[t] = HTTPException(408, "timed out", req[t].command)
            /\ active_commands = 0

\* a call with a timeout of its own has raised CommandTimedOut
C5_Witness ==
    \E t \in Callers :
        /\ Answered(t)
        /\ req[t].timeout < COMMAND_TIMEOUT
        /\ ran[t] > req[t].timeout
        /\ response[t].status_code = 408

\* C8: on one event loop, between operations the history holds the most
\* recent min(N, HISTORY_LIMIT) of the N completed runs, oldest first, so
\* never more than HISTORY_LIMIT entries, and get_command_history(1000)
\* returns exactly these.
C8_HistoryBounded ==
    BetweenOperations =>
        /\ Len(command_history) <= HISTORY_LIMIT
        /\ Len(command_history) = Min(clock, HISTORY_LIMIT)
        /\ \A i \in DOMAIN command_history :
               command_history[i].timestamp = clock - Len(command_history) + i
        /\ get_command_history(command_history, 1000) = command_history
        /\ \A t \in Callers :
               pc[t] = "done" /\ op[t] = "get_command_history"
                   /\ response[t].limit = 1000
                   => response[t].history = command_history

\* after more than HISTORY_LIMIT + 50 completions get_command_history(1000)
\* has returned HISTORY_LIMIT entries
C8_Witness ==
    \E t \in Callers :
        /\ pc[t] = "done" /\ op[t] = "get_command_history"
        /\ response[t].limit = 1000
        /\ Len(response[t].history) = HISTORY_LIMIT
        /\ clock > HISTORY_LIMIT + 50

\* C9: for every limit, get_command_history(limit) returns the last
\* min(limit, length) entries of the history, in the order of the history.
C9_MostRecentLimit ==
    \A t \in Callers :
        pc[t] = "done" /\ op[t] = "get_command_history" =>
            LET n == Min(response[t].limit, Len(command_history))
            IN  response[t].history =
                    SubSeq(command_history, Len(command_history) - n + 1,
                           Len(command_history))

\* no caller is between the end of its process and the end of its
\* truncation of the history
Settled ==
    \A t \in Callers : pc[t] \notin {"append", "check_len", "slice", "slice_store"}

C11_NonZeroIsResult ==
    \A t \in Callers :
        Answered(t) /\ outcome[t] = "completed" =>
            LET n == Len(command_history)
                last == command_history[n]
            IN  /\ response[t].status_code = 200
                /\ response[t].command = req[t].command
                /\ response[t].success = (response[t].return_code = 0)
                /\ n > 0
                /\ last.timestamp = clock
                /\ last.command = req[t].command
                /\ last.return_code = response[t].return_code
                /\ last.success = (last.return_code = 0)
                /\ n > 1 => command_history[n - 1].timestamp = clock - 1

\* a call whose process exited with a non-zero return code has returned
C11_Witness ==
    \E t \in Callers :
        /\ Answered(t) /\ outcome[t] = "completed"
        /\ response[t].status_code = 200
        /\ response[t].return_code # 0
        /\ ~response[t].success
        /\ ~command_history[Len(command_history)].success

\* caller t has its report from get_system_status
Reported(t) == pc[t] = "done" /\ op[t] = "get_system_status"

\* the penalties a sample triggers, counted category by category
TriggeredPenalties(m) ==
    LET over(p, low, high) == IF p > high THEN 2 ELSE IF p > low THEN 1 ELSE 0
        full == {i \in DOMAIN m.disk_usage : m.disk_usage[i].percent > 95}
        low == {i \in DOMAIN m.disk_usage : m.disk_usage[i].percent > 85} \ full
    IN  10 * over(m.cpu_percent, 75, 90) + 10 * over(m.memory_percent, 75, 90)
            + 15 * Cardinality(full) + 5 * Cardinality(low)

\* C12: for every combination of CPU percent, memory percent and disk
\* percents the reported health_score is max(0, 100 - triggered penalties);
\* no report, the error report included, holds a score outside 0 .. 100.
C12_ScoreFloored ==
    \A t \in Callers :
        Reported(t) =>
            /\ response[t].health_score \in 0 .. 100
            /\ metrics[t].state = "ok" =>
                   response[t].health_score =
                       Max(0, 100 - TriggeredPenalties(metrics[t]))

\* a report whose penalties exceed 100 holds the score 0
C12_Witness ==
    \E t \in Callers :
        /\ Reported(t)
        /\ metrics[t].state = "ok"
        /\ TriggeredPenalties(metrics[t]) > 100
        /\ response[t].health_score = 0

\* C13: in every non-error report the status follows from the reported
\* health_score: healthy iff score >= 90, warning iff 70 <= score < 90,
\* critical iff score < 70.
C13_StatusFromScore ==
    \A t \in Callers :
        Reported(t) /\ metrics[t].state = "ok" =>
            LET score == response[t].health_score
                status == response[t].status
            IN  /\ status \in {"healthy", "warning", "critical"}
                /\ status = "healthy" <=> score >= 90
                /\ status = "warning" <=> (70 <= score /\ score < 90)
                /\ status = "critical" <=> score < 70

\* a report with the score exactly 70 is a warning
C13_Witness ==
    \E t \in Callers :
        /\ Reported(t)
        /\ metrics[t].state = "ok"
        /\ response[t].health_score = 70
        /\ response[t].status = "warning"

\* the penalty and the warning of each CPU or memory percent tried
LoadPenalty == (75 :> 0) @@ (76 :> 10) @@ (90 :> 10) @@ (91 :> 20)

LoadWarning == (76 :> "Elevated") @@ (90 :> "Elevated") @@ (91 :> "High")

\* the penalty and the warning of each disk percent tried
DiskPenalty == (85 :> 0) @@ (86 :> 5) @@ (95 :> 5) @@ (96 :> 15)

DiskWarning == (86 :> "Disk low on space") @@ (95 :> "Disk low on space")
                   @@ (96 :> "Disk nearly full")

\* C14: CPU and memory cost 20 above 90 and else 10 above 75 (90 costs 10,
\* 75 nothing), each disk costs 15 above 95 and else 5 above 85; the
\* penalties of all categories and disks add up, and the warnings are one
\* per triggered penalty, in the order CPU, memory, disks.
C14_PenaltiesStack ==
    \A t \in Callers :
        Reported(t) /\ metrics[t].state = "ok" =>
            LET m == metrics[t]
                cpu == IF LoadPenalty[m.cpu_percent] = 0 THEN <<>>
                       ELSE <<[text |-> LoadWarning[m.cpu_percent] \o " CPU usage",
                               about |-> ""]>>
                memory == IF LoadPenalty[m.memory_percent] = 0 THEN <<>>
                          ELSE <<[text |-> LoadWarning[m.memory_percent]
                                              \o " memory usage",
                                  about |-> ""]>>
                hit == SelectSeq(m.disk_usage, LAMBDA u : DiskPenalty[u.percent] > 0)
                disks == [i \in DOMAIN hit |->
                             [text |-> DiskWarning[hit[i].percent],
                              about |-> hit[i].mount]]
                total == LoadPenalty[m.cpu_percent] + LoadPenalty[m.memory_percent]
                sum[i \in 0 .. Len(m.disk_usage)] ==
                    IF i = 0 THEN total
                    ELSE sum[i - 1] + DiskPenalty[m.disk_usage[i].percent]
            IN  /\ response[t].warnings = cpu \o memory \o disks
                /\ response[t].health_score =
                       Max(0, 100 - sum[Len(m.disk_usage)])

\* a report in which a CPU of exactly 90, a memory above 90, a full disk and
\* a low disk have added up
C14_Witness ==
    \E t \in Callers :
        /\ Reported(t)
        /\ metrics[t].state = "ok"
        /\ metrics[t].cpu_percent = 90
        /\ metrics[t].memory_percent = 91
        /\ Len(metrics[t].disk_usage) = 3
        /\ Len(response[t].warnings) = 4
        /\ response[t].health_score = 50

\* C15: get_system_status never raises; when sampling or evaluation fails
\* it returns a report with status error, score 0 and one warning that
\* describes the failure.
C15_ErrorReport ==
    \A t \in Callers :
        Reported(t) =>
            /\ "status" \in DOMAIN response[t]
            /\ metrics[t].state # "ok" =>
                   \E detail \in {SamplingFailure, EvaluationFailure} :
                       response[t] =
                           [status |-> "error", health_score |-> 0,
                            warnings |-> <<[text |-> "System monitoring error",
                                            about |-> detail]>>]

\* a status call whose sampling failed has returned its error report
C15_Witness ==
    \E t \in Callers :
        /\ Reported(t)
        /\ metrics[t].state = "failed"
        /\ response[t].status = "error"
        /\ response[t].health_score = 0

\* a caller whose assign_agent_task call has returned its record
Assigned(t) ==
    /\ pc[t] = "done"
    /\ op[t] = "assign_agent_task"
    /\ response[t] # AgentNotFound(req[t].agent_id)

\* C16: the agent that create_agent stores (the object it returns) is
\* active, has no current task, zeroed resource usage and the name, type and
\* capabilities given; when an assign_agent_task(id, task) call has
\* succeeded, whatever the agent's status was, the agent is busy with that
\* task and the returned record says 'assigned' for that id and task.
C16_CreatedThenAssigned ==
    /\ [][\A a \in DOMAIN agents' \ DOMAIN agents :
             /\ agents'[a].status = "active"
             /\ agents'[a].current_task = "None"
             /\ agents'[a].resource_usage = [cpu |-> 0, memory |-> 0]
             /\ agents'[a].name = "bot"
             /\ agents'[a].type = "worker"
             /\ agents'[a].capabilities = <<"x">>]_vars
    /\ [](\A t \in Callers :
             Assigned(t) =>
                 /\ agents[req[t].agent_id].status = "busy"
                 /\ agents[req[t].agent_id].current_task = req[t].task
                 /\ response[t].status = "assigned"
                 /\ response[t].agent_id = req[t].agent_id
                 /\ response[t].task = req[t].task)

\* an agent created in an earlier second is busy with the task just assigned
C16_Witness ==
    \E t \in Callers :
        /\ Assigned(t)
        /\ agents[req[t].agent_id].status = "busy"
        /\ agents[req[t].agent_id].current_task = "build"
        /\ agents[req[t].agent_id].created_at < agents[req[t].agent_id].last_active

\* C17: an assign_agent_task call whose agent_id is not in the agent table
\* fails with AgentNotFound (404) and leaves the agent table unchanged.
C17_UnknownAgentRejected ==
    [][\A t \in Callers :
          (/\ pc[t] = "idle"
           /\ op'[t] = "assign_agent_task"
           /\ req'[t].agent_id \notin DOMAIN agents)
          => /\ pc'[t] = "done"
             /\ response'[t].status_code = 404
             /\ response'[t] = AgentNotFound(req'[t].agent_id)
             /\ agents' = agents]_vars

\* a call on an unknown id was answered 404 while the table holds an agent
C17_Witness ==
    \E t \in Callers :
        /\ pc[t] = "done"
        /\ op[t] = "assign_agent_task"
        /\ req[t].agent_id \notin DOMAIN agents
        /\ response[t] = AgentNotFound(UnknownAgent)
        /\ agents # <<>>

\* C18: after any sequence of create_agent calls, several of them within one
\* clock second included, the ids are pairwise distinct, no earlier agent is
\* overwritten and the table holds one agent per call: the id the next call
\* would take is never in the table, every agent is stored under its own
\* id, and a create_agent step adds exactly one entry and keeps the others.
C18_DistinctIds ==
    /\ [](/\ AgentId(Cardinality(DOMAIN agents), clock) \notin DOMAIN agents
          /\ \A a \in DOMAIN agents : agents[a].id = a)
    /\ [][(pc' = pc /\ agents' # agents) =>
             /\ Cardinality(DOMAIN agents') = Cardinality(DOMAIN agents) + 1
             /\ \A a \in DOMAIN agents :
                    a \in DOMAIN agents' /\ agents'[a] = agents[a]]_vars

\* two agents created within the same second, the first one busy
C18_Witness ==
    \E a, b \in DOMAIN agents :
        /\ a # b
        /\ agents[a].created_at = agents[b].created_at
        /\ agents[a].status = "busy"
        /\ agents[b].status = "active"
        /\ Cardinality(DOMAIN agents) = MaxAgents

Listed(t) == pc[t] = "done" /\ op[t] = "get_processes"

\* the processes of the caller's enumeration that gave their info
Readable(t) ==
    {i \in DOMAIN metrics[t].processes : metrics[t].processes[i][1] = "ok"}

\* info['cpu_percent'] of process i, None read as 0.0
CpuOf(t, i) ==
    LET reading == metrics[t].processes[i][2]
    IN  IF reading = <<>> THEN 0 ELSE reading[1]

\* C20: for every limit >= 0, when every process of the enumeration gives
\* its info, vanishes or denies access, get_processes does not fail and
\* returns min(limit, number of readable processes) entries, each a different
\* readable process with its cpu_percent, in non-increasing cpu_percent
\* order, and no readable process left out has more cpu_percent than one
\* returned.
C20_TopByCpu ==
    \A t \in Callers :
        (/\ Listed(t)
         /\ \A i \in DOMAIN metrics[t].processes :
                metrics[t].processes[i][1] \in {"ok", "vanished", "denied"})
        => /\ DOMAIN response[t] = {"processes"}
           /\ LET out == response[t].processes
                  pids == {out[k].pid : k \in DOMAIN out}
              IN  /\ Len(out) = Min(req[t].limit, Cardinality(Readable(t)))
                  /\ Cardinality(pids) = Len(out)
                  /\ pids \subseteq Readable(t)
                  /\ \A k \in DOMAIN out : out[k].cpu_percent = CpuOf(t, out[k].pid)
                  /\ \A j, k \in DOMAIN out :
                         j < k => out[j].cpu_percent >= out[k].cpu_percent
                  /\ \A i \in Readable(t) \ pids, k \in DOMAIN out :
                         CpuOf(t, i) <= out[k].cpu_percent

\* three processes, one vanished, the busier of the other two returned alone
C20_Witness ==
    \E t \in Callers :
        /\ Listed(t)
        /\ req[t].limit = 1
        /\ metrics[t].processes = <<<<"ok", <<5>>>>, <<"vanished", <<>>>>, <<"ok", <<50>>>>>>
        /\ response[t] = [processes |-> <<[pid |-> 3, cpu_percent |-> 50]>>]

\* a caller whose get_system_metrics call has ended
Sampled(t) == pc[t] = "done" /\ op[t] = "get_system_metrics"

\* C21: when only sub-reads fail, get_system_metrics still returns the
\* snapshot: with load averages (0, 0, 0) if the load-average read failed,
\* with no frequency if the frequency read failed, and with exactly the
\* mounts whose usage read did not fail, each with the percent read.
C21_SubReadsDegrade ==
    \A t \in Callers :
        (Sampled(t) /\ metrics[t].rest = "ok")
        => /\ DOMAIN response[t] = {"cpu_freq", "disk_usage", "load_avg"}
           /\ metrics[t].load[1] = "failed" => response[t].load_avg = <<0, 0, 0>>
           /\ metrics[t].load[1] = "ok" => response[t].load_avg = metrics[t].load[2]
           /\ metrics[t].freq[1] = "failed" => response[t].cpu_freq = <<>>
           /\ LET parts == metrics[t].partitions
                  out == response[t].disk_usage
                  kept == {i \in DOMAIN parts : parts[i][1] = "ok"}
              IN  /\ Len(out) = Cardinality(kept)
                  /\ {out[k].mount : k \in DOMAIN out} = {Mounts[i] : i \in kept}
                  /\ \A k \in DOMAIN out : \E i \in kept :
                         out[k] = [mount |-> Mounts[i], percent |-> parts[i][2]]

\* the load-average read, the frequency read and the read of the second of
\* three mounts failed, and the snapshot came back with the other two mounts
C21_Witness ==
    \E t \in Callers :
        /\ Sampled(t)
        /\ metrics[t].rest = "ok"
        /\ metrics[t].load[1] = "failed"
        /\ metrics[t].freq[1] = "failed"
        /\ metrics[t].partitions = <<<<"ok", 10>>, <<"failed", 0>>, <<"ok", 90>>>>
        /\ response[t] = [cpu_freq |-> <<>>, load_avg |-> <<0, 0, 0>>,
                          disk_usage |-> <<[mount |-> "/", percent |-> 10],
                                           [mount |-> "/home", percent |-> 90]>>]

\* a caller between the gate and the answer of execute_command
InFlight(t) == pc[t] \notin {"idle", "done"}

\* no call stays between the gate and its answer
CallsEnd == \A t \in Callers : InFlight(t) ~> pc[t] = "done"

\* if from some moment on no call is under way, the counter ends at 0
CounterReturns ==
    <>[](\A t \in Callers : ~InFlight(t)) => <>[](active_commands = 0)

C23_CeilingUnreachable ==
    /\ [](/\ active_commands \in {0, 1}
          /\ \A t \in Callers :
                 response[t] # TooManyConcurrentCommands(req[t].command))
    /\ [][(\/ \E t \in Callers : pc[t] = "idle" /\ pc'[t] # "idle"
           \/ DOMAIN agents' # DOMAIN agents)
          => active_commands = 0]_vars

\* a second execution is under way, counted once, after a first has completed
C23_Witness ==
    \E t \in Callers :
        /\ pc[t] = "run"
        /\ active_commands = 1
        /\ Len(command_history) = 1
        /\ response[t].status_code # 429

\* C24: an execute_command call rejected as prohibited or as not in the
\* allowed list has no side effect: it ends with the step that rejects it,
\* and that step leaves the active-command counter, the command history and
\* the agent table as they were.
C24_RejectionNoEffect ==
    [][\A t \in Callers :
          (/\ GateStep(t)
           /\ response'[t] \in {CommandProhibited(req'[t].command),
                                CommandNotAllowed(req'[t].command)})
          => /\ pc'[t] = "done"
             /\ active_commands' = active_commands
             /\ command_history' = command_history
             /\ agents' = agents]_vars

\* a call was rejected as not allowed while other commands were running,
\* the history held entries and an agent existed
C24_Witness ==
    \E t \in Callers :
        /\ Answered(t)
        /\ response[t] = CommandNotAllowed("cat")
        /\ active_commands > 0
        /\ command_history # <<>>
        /\ agents # <<>>

\* C25 as stated: a timeout or an unexpected failure appends nothing and
\* every execution that ran to completion makes the history one entry
\* longer, so that between operations the history, empty at the start, has
\* as many entries as executions have completed.
C25_OnePerCompletion == BetweenOperations => Len(command_history) = clock

\* C25: on one event loop, no step of an execute_command call that is
\* rejected, times out or fails changes the history; a call that ran to
\* completion appends exactly one entry, its own, and the history is then
\* cut to its last HISTORY_LIMIT entries, so that its length grows by one
\* below HISTORY_LIMIT and stays HISTORY_LIMIT from there on.
C25_AppendsOnCompletion ==
    /\ [](BetweenOperations => Len(command_history) = Min(clock, HISTORY_LIMIT))
    /\ [](\A t \in Callers :
             Answered(t) /\ outcome[t] = "completed"
                 => command_history[Len(command_history)]
                        = LogEntry(clock, req[t].command, response[t].return_code))
    /\ [][\A t \in Callers :
             /\ (pc'[t] # pc[t] /\ op'[t] = "execute_command"
                     /\ outcome'[t] # "completed")
                => command_history' = command_history
             /\ pc[t] = "append"
                => /\ outcome[t] = "completed"
                   /\ command_history' = Append(command_history, log_entry[t])]_vars

\* a call has timed out after HISTORY_LIMIT + 1 completions and the history
\* holds HISTORY_LIMIT entries, the last one of the completion before it
C25_Witness ==
    \E t \in Callers :
        /\ Answered(t)
        /\ outcome[t] = "timed_out"
        /\ clock = HISTORY_LIMIT + 1
        /\ Len(command_history) = HISTORY_LIMIT
        /\ command_history[HISTORY_LIMIT].timestamp = clock

\* C26: no operation removes an agent or moves it out of 'busy': every
\* step keeps the agent ids there are, a busy agent stays busy, and a busy
\* agent has a current task that is neither None nor empty.
C26_BusyForGood ==
    /\ [](\A a \in DOMAIN agents :
             agents[a].status = "busy" => agents[a].current_task \notin {"None", ""})
    /\ [][/\ DOMAIN agents \subseteq DOMAIN agents'
          /\ \A a \in DOMAIN agents :
                 agents[a].status = "busy" => agents'[a].status = "busy"]_vars

\* a busy agent was given another task in a later second, a request without
\* a task was answered 400, and a second agent has been created since
C26_Witness ==
    \E t \in Callers, a \in DOMAIN agents :
        /\ pc[t] = "done"
        /\ op[t] = "post_agent_task"
        /\ req[t].agent_id = a
        /\ response[t].status_code = 400
        /\ agents[a].status = "busy"
        /\ agents[a].current_task = "scan"
        /\ agents[a].last_active > agents[a].created_at
        /\ Cardinality(DOMAIN agents) = MaxAgents

\* what assign_agent_task may not touch in an agent
Kept(agent) ==
    [id |-> agent.id, name |-> agent.name, type |-> agent.type,
     created_at |-> agent.created_at, resource_usage |-> agent.resource_usage,
     capabilities |-> agent.capabilities]

\* C27: a successful assign_agent_task(id, ...) changes only current_task,
\* last_active and status of the agent with that id: none of its steps
\* changes that agent's id, name, type, created_at, resource_usage or
\* capabilities, any other agent, the set of agents, the command history or
\* the active-command counter.
C27_OnlyThreeFields ==
    [][\A t \in Callers :
          (pc'[t] # pc[t] /\ op'[t] = "assign_agent_task")
          => /\ DOMAIN agents' = DOMAIN agents
             /\ \A a \in DOMAIN agents :
                    /\ Kept(agents'[a]) = Kept(agents[a])
                    /\ a # req'[t].agent_id => agents'[a] = agents[a]
             /\ command_history' = command_history
             /\ active_commands' = active_commands]_vars

\* an agent was assigned a task a second after a second agent was created,
\* which is still as it was created
C27_Witness ==
    \E t \in Callers, b \in DOMAIN agents :
        /\ Assigned(t)
        /\ b # req[t].agent_id
        /\ agents[b] = NewAgent(b, "bot", "worker", <<"x">>, agents[b].created_at)
        /\ agents[req[t].agent_id].last_active > agents[b].created_at
        /\ agents[req[t].agent_id].current_task = req[t].task
        /\ Kept(agents[req[t].agent_id])
               = Kept(NewAgent(req[t].agent_id, "bot", "worker", <<"x">>,
                               agents[req[t].agent_id].created_at))

\* C28: in every report of get_system_status that is not an error report,
\* active_agents is the number of agents in the table, the busy ones
\* counted with the active ones, and get_system_status changes neither the
\* agent table, nor the command history, nor the active-command counter.
C28_CountsEveryAgent ==
    /\ [](\A t \in Callers :
             Reported(t) /\ response[t].status # "error"
                 => /\ response[t].active_agents = Cardinality(DOMAIN agents)
                    /\ response[t].active_agents
                           = Cardinality({a \in DOMAIN agents : agents[a].status = "busy"})
                             + Cardinality({a \in DOMAIN agents : agents[a].status = "active"}))
    /\ [][\A t \in Callers :
             (pc'[t] # pc[t] /\ op'[t] = "get_system_status")
             => /\ agents' = agents
                /\ command_history' = command_history
                /\ active_commands' = active_commands]_vars

\* a report counts two agents, one of them busy
C28_Witness ==
    \E t \in Callers :
        /\ Reported(t)
        /\ response[t].status = "critical"
        /\ response[t].active_agents = 2
        /\ \E a, b \in DOMAIN agents :
               agents[a].status = "busy" /\ agents[b].status = "active"

=============================================================================
